---------------------------- MODULE Spec2Model ----------------------------
(***************************************************************************)
(* A model of the training protocol of poem.training.TrainingLoop, of the  *)
(* file-cache memoization of the deterioration experiment driver and of    *)
(* the scoring interface exercised by the generic interaction tests.       *)
(***************************************************************************)
EXTENDS Integers, Sequences, FiniteSets, TLC

(***************************************************************************)
(* Bounds of the model.                                                    *)
(***************************************************************************)
MaxCalls == 2
MaxEpochs == 3
MaxTotalEpochs == 4
MaxInstances == 2
MaxBatchSize == 2
MaxFrequency == 2

\* Python's None.
None == 0

\* No exception was raised.
NoException == ""

VARIABLES
    \* ---- TrainingLoop object and its model ----
    compute_mr_loss,            \* model.compute_mr_loss
    num_instances,              \* the number of training instances of the model's triples factory
    optimizer_class,            \* self.optimizer_class: None or a class
    optimizer,                  \* self.optimizer: None or the identity of an optimizer object
    training_instances,         \* self.training_instances: None or the identity of an Instances object
    losses_per_epochs,          \* self.losses_per_epochs
    weights,                    \* number of times model.reset_weights_ ran
    forward_constraint_applied, \* model.forward_constraint_applied
    grads,                      \* batches whose gradients are accumulated in the parameters' .grad
    last_step,                  \* the last optimizer.step: which optimizer, which gradients it applied
    \* ---- the running call of train ----
    pc,                         \* position in train (a source line), or idle / returned / raised
    args,                       \* the arguments of the call
    epoch,
    batch,
    loss,                       \* the loss of the batch in flight
    current_epoch_loss,
    ret,                        \* the value train returned
    exc,                        \* the exception train raised
    \* ---- history of the running call ----
    calls,                      \* number of train calls so far
    pre,                        \* the object's fields when the call started
    trained_once,               \* some call with continue_training=False got past optimizer creation
    batch_ops,                  \* operations performed on the batch in flight, in order
    processed,                  \* batches passed to _process_batch in this call
    consulted,                  \* epochs at whose end should_stop was called, with what was seen
    consulted_since_step,       \* should_stop ran after the last optimizer.step
    \* ---- the deterioration experiment: _help_loop and its file cache ----
    dataset,                    \* the class name of the dataset under study
    files,                      \* the results directory: path -> content of the file
    hl,                         \* the running call of _help_loop: position, arguments, locals, result
    hl_calls,                   \* number of _help_loop calls so far
    hl_hist,                    \* what the running call has done so far
    first_rows,                 \* arguments -> the row of the first call with them that returned one
    \* ---- the deterioration experiment: one run of helper ----
    helper_pc,                  \* position in helper: at the starmap of line 71, or past line 73
    percentages,                \* the percentages of the run
    it,                         \* the combinations starmap has not handed to a worker yet
    pool,                       \* worker -> the call of _help_loop it is running
    task_hist,                  \* combination -> what the run has done for it so far
    rows,                       \* the rows of line 73
    \* ---- the interaction under test (InteractionTests) ----
    cls,                        \* the Interaction class
    dims,                       \* batch_size, num_entities, num_relations of the test case
    training,                   \* instance.training: training or evaluation mode
    test,                       \* the running test: position, method, inputs h, r, t and slice_size
    scores                      \* what the method under test returned

train_vars == <<compute_mr_loss, num_instances, optimizer_class, optimizer, training_instances,
                losses_per_epochs, weights, forward_constraint_applied,
                grads, last_step, pc, args, epoch, batch, loss, current_epoch_loss, ret, exc,
                calls, pre, trained_once, batch_ops, processed, consulted, consulted_since_step>>

cache_vars == <<dataset, files, hl, hl_calls, hl_hist, first_rows>>

helper_vars == <<helper_pc, percentages, it, pool, task_hist, rows>>

score_vars == <<cls, dims, training, test, scores>>

vars == <<train_vars, cache_vars, helper_vars, score_vars>>

(***************************************************************************)
(* TrainingLoop.__init__                                                   *)
(***************************************************************************)
NoArgs == [num_epochs |-> 0, batch_size |-> 1, label_smoothing |-> 0,
           continue_training |-> FALSE, early_stopper |-> None]

NoStep == [optimizer |-> None, grads |-> {}]

\* The fields of the loop and of its model that a call of train may change.
Snapshot == [weights |-> weights, optimizer |-> optimizer,
             training_instances |-> training_instances,
             losses_per_epochs |-> losses_per_epochs,
             trained_once |-> trained_once]

TrainInit ==
    /\ compute_mr_loss \in BOOLEAN
    /\ num_instances \in 1..MaxInstances
    /\ optimizer_class \in {None, 1}
    /\ optimizer = None
    /\ training_instances = None
    /\ losses_per_epochs = <<>>
    /\ weights = 0
    /\ forward_constraint_applied = FALSE
    /\ grads = {}
    /\ last_step = NoStep
    /\ pc = "idle"
    /\ args = NoArgs
    /\ epoch = 0
    /\ batch = 0
    /\ loss = 0
    /\ current_epoch_loss = 0
    /\ ret = None
    /\ exc = NoException
    /\ calls = 0
    /\ pre = [weights |-> 0, optimizer |-> None, training_instances |-> None,
              losses_per_epochs |-> <<>>, trained_once |-> FALSE]
    /\ trained_once = FALSE
    /\ batch_ops = <<>>
    /\ processed = 0
    /\ consulted = <<>>
    /\ consulted_since_step = FALSE

(***************************************************************************)
(* TrainingLoop.train, one action per statement that an observer can tell  *)
(* apart.  The external collaborators (model, optimizer, data loader,      *)
(* early stopper) are opaque; they are modelled by their effect on the     *)
(* state the loop can see.                                                 *)
(***************************************************************************)
\* loss.item() of a batch: the value plays no part in the control flow.
LossValues == {1}

\* The argument tuples train is called with.
ArgSets == [num_epochs : 0..MaxEpochs,
            batch_size : 1..MaxBatchSize,
            label_smoothing : {0, 1},          \* 0.0, or some value in (0, 1)
            continue_training : BOOLEAN,
            early_stopper : {None} \cup 1..MaxFrequency]  \* None, or a stopper with this frequency

\* len(DataLoader(dataset, batch_size)): the last batch may be short.
NumBatches(n, bs) == (n + bs - 1) \div bs

\* train is called: a fresh frame.
TrainCall ==
    /\ pc \in {"idle", "returned", "raised"}
    /\ calls < MaxCalls
    /\ \E a \in ArgSets :
          /\ Len(losses_per_epochs) + a.num_epochs <= MaxTotalEpochs
          /\ args' = a
    /\ calls' = calls + 1
    /\ pre' = Snapshot
    /\ UNCHANGED trained_once
    /\ pc' = "l84"
    /\ epoch' = 0
    /\ batch' = 0
    /\ loss' = 0
    /\ current_epoch_loss' = 0
    /\ ret' = None
    /\ exc' = NoException
    /\ batch_ops' = <<>>
    /\ processed' = 0
    /\ consulted' = <<>>
    /\ consulted_since_step' = FALSE
    /\ UNCHANGED <<compute_mr_loss, num_instances, optimizer_class, optimizer, training_instances,
                   losses_per_epochs, weights, forward_constraint_applied,
                   grads, last_step>>

\* The exceptions train can raise: lines 85 and 98, and the call of a None
\* optimizer_class on line 96.
LabelSmoothingError == "ValueError: Margin Ranking Loss cannot be used together with label smoothing."
CannotContinue == "ValueError: Cannot continue_training without being trained once."
NotCallable == "TypeError: 'NoneType' object is not callable"

\* Line 84: the condition of the sanity check.
SanityIgnoresSmoothing(mr, ls) == mr
SanityCheckFails(mr, ls) == mr /\ ls > 0

\* Lines 83-85.
SanityCheck ==
    /\ pc = "l84"
    /\ IF SanityCheckFails(compute_mr_loss, args.label_smoothing)
       THEN /\ pc' = "raised"
            /\ exc' = LabelSmoothingError
       ELSE /\ pc' = "l91"
            /\ UNCHANGED exc
    /\ UNCHANGED <<compute_mr_loss, num_instances, optimizer_class, optimizer, training_instances,
                   losses_per_epochs, weights, forward_constraint_applied,
                   grads, last_step, args, epoch, batch, loss, current_epoch_loss, ret,
                   calls, pre, trained_once, batch_ops, processed, consulted, consulted_since_step>>

\* Lines 91-93: reset_weights_ runs exactly when continuation was not requested.
WeightsAlwaysReset(continue_training, w) == w + 1
WeightsAfterInit(continue_training, w) == IF ~continue_training THEN w + 1 ELSE w

\* Lines 91-96: a new optimizer object (named by the call that made it) unless continuing.
OptimizerAlwaysNew(continue_training, o, fresh) == fresh
OptimizerAfterInit(continue_training, o, fresh) == IF ~continue_training THEN fresh ELSE o

\* Lines 87-98.  Calling optimizer_class when it is None raises TypeError, after the reset.
InitWeights ==
    /\ pc = "l91"
    /\ weights' = WeightsAfterInit(args.continue_training, weights)
    /\ IF ~args.continue_training
       THEN IF optimizer_class = None
            THEN /\ pc' = "raised"
                 /\ exc' = NotCallable
                 /\ UNCHANGED <<optimizer, trained_once>>
            ELSE /\ optimizer' = OptimizerAfterInit(args.continue_training, optimizer, calls)
                 /\ trained_once' = TRUE
                 /\ pc' = "l101"
                 /\ UNCHANGED exc
       ELSE IF optimizer = None
            THEN /\ pc' = "raised"
                 /\ exc' = CannotContinue
                 /\ UNCHANGED <<optimizer, trained_once>>
            ELSE /\ optimizer' = OptimizerAfterInit(args.continue_training, optimizer, calls)
                 /\ pc' = "l101"
                 /\ UNCHANGED <<exc, trained_once>>
    /\ UNCHANGED <<compute_mr_loss, num_instances, optimizer_class, training_instances,
                   losses_per_epochs, forward_constraint_applied,
                   grads, last_step, args, epoch, batch, loss, current_epoch_loss, ret,
                   calls, pre, batch_ops, processed, consulted, consulted_since_step>>

\* Lines 100-117: the instances, the data loader and the progress bar.
CreateInstances ==
    /\ pc = "l101"
    /\ training_instances' = calls
    /\ epoch' = 0
    /\ pc' = "l120"
    /\ UNCHANGED <<compute_mr_loss, num_instances, optimizer_class, optimizer,
                   losses_per_epochs, weights, forward_constraint_applied,
                   grads, last_step, args, batch, loss, current_epoch_loss, ret, exc,
                   calls, pre, trained_once, batch_ops, processed, consulted, consulted_since_step>>

\* What train returns (lines 149 and 157): which objects, carrying which losses.
ReturnValue(losses) == [components |-> <<"losses_per_epochs">>, losses |-> losses]

\* Lines 120-125: the head of the epoch loop.
EpochHead ==
    /\ pc = "l120"
    /\ epoch < args.num_epochs
    /\ current_epoch_loss' = 0
    /\ batch' = 0
    /\ pc' = "l128"
    /\ UNCHANGED <<compute_mr_loss, num_instances, optimizer_class, optimizer, training_instances,
                   losses_per_epochs, weights, forward_constraint_applied,
                   grads, last_step, args, epoch, loss, ret, exc,
                   calls, pre, trained_once, batch_ops, processed, consulted, consulted_since_step>>

\* Line 157: the epochs are exhausted.
ReturnNormally ==
    /\ pc = "l120"
    /\ epoch >= args.num_epochs
    /\ ret' = ReturnValue(losses_per_epochs)
    /\ pc' = "returned"
    /\ UNCHANGED <<compute_mr_loss, num_instances, optimizer_class, optimizer, training_instances,
                   losses_per_epochs, weights, forward_constraint_applied,
                   grads, last_step, args, epoch, batch, loss, current_epoch_loss, exc,
                   calls, pre, trained_once, batch_ops, processed, consulted, consulted_since_step>>

\* The statement that follows each statement of the batch body (lines 129-139).
BatchStepSwapped(p) ==
    CASE p = "l129" -> "l134"
      [] p = "l134" -> "l133"
      [] p = "l133" -> "l136"
      [] p = "l136" -> "l139"
      [] OTHER      -> "l128"
BatchStepAfter(p) ==
    CASE p = "l129" -> "l133"
      [] p = "l133" -> "l134"
      [] p = "l134" -> "l136"
      [] p = "l136" -> "l139"
      [] OTHER      -> "l128"

ThisBatch == <<calls, epoch, batch>>

\* The flag after code that may run the model's forward pass: the model marks
\* its forward constraints as applied when it applies them, which it need not.
FlagAfterForwardPass(f) == {f, TRUE}

\* Line 128 and 129: the loader yields a batch, _process_batch computes its loss.
\* The forward pass inside it is the model's: it may apply the forward
\* constraints and say so.
ProcessBatch ==
    /\ pc = "l128"
    /\ batch < NumBatches(num_instances, args.batch_size)
    /\ \E l \in LossValues : loss' = l
    /\ forward_constraint_applied' \in FlagAfterForwardPass(forward_constraint_applied)
    /\ processed' = processed + 1
    /\ batch_ops' = <<"_process_batch">>
    /\ pc' = BatchStepAfter("l129")
    /\ UNCHANGED <<compute_mr_loss, num_instances, optimizer_class, optimizer, training_instances,
                   losses_per_epochs, weights,
                   grads, last_step, args, epoch, batch, current_epoch_loss, ret, exc,
                   calls, pre, trained_once, consulted, consulted_since_step>>

\* optimizer.zero_grad(): what is left in the parameters' .grad.
ZeroGradKeeps(g) == g
ZeroGradResult(g) == {}

\* Line 133.
ZeroGrad ==
    /\ pc = "l133"
    /\ grads' = ZeroGradResult(grads)
    /\ batch_ops' = Append(batch_ops, "zero_grad")
    /\ pc' = BatchStepAfter("l133")
    /\ UNCHANGED <<compute_mr_loss, num_instances, optimizer_class, optimizer, training_instances,
                   losses_per_epochs, weights, forward_constraint_applied,
                   last_step, args, epoch, batch, loss, current_epoch_loss, ret, exc,
                   calls, pre, trained_once, processed, consulted, consulted_since_step>>

\* Lines 134-135: loss.backward() accumulates into .grad; the loss is added up.
Backward ==
    /\ pc = "l134"
    /\ grads' = grads \cup {ThisBatch}
    /\ current_epoch_loss' = current_epoch_loss + loss
    /\ batch_ops' = Append(batch_ops, "backward")
    /\ pc' = BatchStepAfter("l134")
    /\ UNCHANGED <<compute_mr_loss, num_instances, optimizer_class, optimizer, training_instances,
                   losses_per_epochs, weights, forward_constraint_applied,
                   last_step, args, epoch, batch, loss, ret, exc,
                   calls, pre, trained_once, processed, consulted, consulted_since_step>>

\* Line 136: the optimizer applies whatever is accumulated.
OptimizerStep ==
    /\ pc = "l136"
    /\ last_step' = [optimizer |-> optimizer, grads |-> grads]
    /\ batch_ops' = Append(batch_ops, "step")
    /\ pc' = BatchStepAfter("l136")
    /\ UNCHANGED <<compute_mr_loss, num_instances, optimizer_class, optimizer, training_instances,
                   losses_per_epochs, weights, forward_constraint_applied,
                   grads, args, epoch, batch, loss, current_epoch_loss, ret, exc,
                   calls, pre, trained_once, processed, consulted, consulted_since_step>>

\* Line 139: the value the flag is given.
NotifyKeeps(f) == f
NotifiedFlag(f) == FALSE

\* Line 139, and the loader moves on.
Notify ==
    /\ pc = "l139"
    /\ forward_constraint_applied' = NotifiedFlag(forward_constraint_applied)
    /\ batch_ops' = Append(batch_ops, "forward_constraint_applied = False")
    /\ consulted_since_step' = FALSE
    /\ batch' = batch + 1
    /\ pc' = BatchStepAfter("l139")
    /\ UNCHANGED <<compute_mr_loss, num_instances, optimizer_class, optimizer, training_instances,
                   losses_per_epochs, weights,
                   grads, last_step, args, epoch, loss, current_epoch_loss, ret, exc,
                   calls, pre, trained_once, processed, consulted>>

\* Line 142: the loader is exhausted; the epoch's loss, as the fraction
\* current_epoch_loss / num_training_instances, is appended.
TrackEpochLoss ==
    /\ pc = "l128"
    /\ batch >= NumBatches(num_instances, args.batch_size)
    /\ losses_per_epochs' = Append(losses_per_epochs, <<current_epoch_loss, num_instances>>)
    /\ pc' = "l144"
    /\ UNCHANGED <<compute_mr_loss, num_instances, optimizer_class, optimizer, training_instances,
                   weights, forward_constraint_applied,
                   grads, last_step, args, epoch, batch, loss, current_epoch_loss, ret, exc,
                   calls, pre, trained_once, batch_ops, processed, consulted, consulted_since_step>>

\* Line 146: only check with the given frequency.
ConsultOffByOne(e, frequency) == 0 = ((e + 1) % frequency)
ConsultStopper(e, frequency) == 0 = (e % frequency)

\* Lines 144-149 when should_stop is reached.  It answers either way.  The
\* stopper evaluates the model it was given (which is why line 122 has to
\* enforce training mode again in every epoch): the model's forward pass may
\* apply the forward constraints and say so.
ShouldStop ==
    /\ pc = "l144"
    /\ args.early_stopper # None
    /\ ConsultStopper(epoch, args.early_stopper)
    /\ \E answer \in BOOLEAN :
          /\ consulted' = Append(consulted, [epoch |-> epoch, answer |-> answer,
                                             losses |-> Len(losses_per_epochs),
                                             processed |-> processed])
          /\ IF answer
             THEN /\ ret' = ReturnValue(losses_per_epochs)
                  /\ pc' = "returned"
             ELSE /\ pc' = "l152"
                  /\ UNCHANGED ret
    /\ forward_constraint_applied' \in FlagAfterForwardPass(forward_constraint_applied)
    /\ consulted_since_step' = TRUE
    /\ UNCHANGED <<compute_mr_loss, num_instances, optimizer_class, optimizer, training_instances,
                   losses_per_epochs, weights,
                   grads, last_step, args, epoch, batch, loss, current_epoch_loss, exc,
                   calls, pre, trained_once, batch_ops, processed>>

\* Lines 144-146 when the condition short-circuits before should_stop.
SkipStopper ==
    /\ pc = "l144"
    /\ \/ args.early_stopper = None
       \/ /\ args.early_stopper # None
          /\ ~ConsultStopper(epoch, args.early_stopper)
    /\ pc' = "l152"
    /\ UNCHANGED <<compute_mr_loss, num_instances, optimizer_class, optimizer, training_instances,
                   losses_per_epochs, weights, forward_constraint_applied,
                   grads, last_step, args, epoch, batch, loss, current_epoch_loss, ret, exc,
                   calls, pre, trained_once, batch_ops, processed, consulted, consulted_since_step>>

\* Lines 151-155: the progress bar's postfix; the loop goes to the next epoch.
SetPostfix ==
    /\ pc = "l152"
    /\ epoch' = epoch + 1
    /\ pc' = "l120"
    /\ UNCHANGED <<compute_mr_loss, num_instances, optimizer_class, optimizer, training_instances,
                   losses_per_epochs, weights, forward_constraint_applied,
                   grads, last_step, args, batch, loss, current_epoch_loss, ret, exc,
                   calls, pre, trained_once, batch_ops, processed, consulted, consulted_since_step>>

TrainNext ==
    \/ TrainCall
    \/ SanityCheck
    \/ InitWeights
    \/ CreateInstances
    \/ EpochHead
    \/ ReturnNormally
    \/ ProcessBatch
    \/ ZeroGrad
    \/ Backward
    \/ OptimizerStep
    \/ Notify
    \/ TrackEpochLoss
    \/ ShouldStop
    \/ SkipStopper
    \/ SetPostfix

(***************************************************************************)
(* Claims about TrainingLoop.train                                         *)
(***************************************************************************)
BatchOrder == <<"_process_batch", "zero_grad", "backward", "step",
                "forward_constraint_applied = False">>

IsPrefix(s, t) == Len(s) <= Len(t) /\ s = SubSeq(t, 1, Len(s))

AfterBatches == {"l128", "l144", "l152", "l120", "returned"}

InLoop == {"l101", "l120", "l128", "l133", "l134", "l136", "l139", "l144", "l152", "returned"}

\* C1: every batch goes through _process_batch, zero_grad, backward, step and
\* the reset of forward_constraint_applied in exactly this order; when backward
\* has run the accumulated gradients are those of this batch alone, and the
\* step applies exactly them.
C1_BatchOrder ==
    /\ IsPrefix(batch_ops, BatchOrder)
    /\ pc = "l133" => Len(batch_ops) = 1
    /\ pc = "l134" => Len(batch_ops) = 2
    /\ pc = "l136" => Len(batch_ops) = 3 /\ grads = {ThisBatch}
    /\ pc = "l139" => /\ Len(batch_ops) = 4
                      /\ last_step = [optimizer |-> optimizer, grads |-> {ThisBatch}]
    /\ (pc \in AfterBatches /\ processed > 0) => batch_ops = BatchOrder

C1_Witness ==
    /\ pc = "l139"
    /\ calls = 2
    /\ epoch = 1
    /\ batch = 1

\* C2: continuing on a loop that has no optimizer raises the ValueError of line
\* 98 with the weights, the optimizer (None), the training instances and the
\* losses as they were; such a call always raises (unless the sanity check
\* raised first); once a call got past optimizer creation, no later call
\* raises this error.
C2_ContinueUntrained ==
    /\ (pc = "raised" /\ exc = CannotContinue) =>
          /\ args.continue_training
          /\ weights = pre.weights
          /\ optimizer = None
          /\ training_instances = pre.training_instances
          /\ losses_per_epochs = pre.losses_per_epochs
          /\ processed = 0
    /\ (args.continue_training /\ pre.optimizer = None /\ pc \notin {"idle", "l84", "l91"}) =>
          /\ pc = "raised"
          /\ exc \in {CannotContinue, LabelSmoothingError}
    /\ pre.trained_once => exc # CannotContinue

C2_Witness ==
    /\ pc = "raised"
    /\ exc = CannotContinue
    /\ pre.weights = 1

\* C3: label smoothing with a margin ranking loss raises the ValueError of line
\* 85 before any effect: weights, optimizer, training instances and losses are
\* as they were and no batch was processed; without label smoothing the check
\* never raises.
C3_SanityCheck ==
    /\ (pc = "raised" /\ exc = LabelSmoothingError) =>
          /\ compute_mr_loss
          /\ args.label_smoothing > 0
          /\ Snapshot = pre
          /\ processed = 0
    /\ (compute_mr_loss /\ args.label_smoothing > 0 /\ pc \notin {"idle", "l84"}) =>
          /\ pc = "raised"
          /\ exc = LabelSmoothingError
    /\ args.label_smoothing = 0 => exc # LabelSmoothingError

C3_Witness ==
    /\ pc = "raised"
    /\ exc = LabelSmoothingError
    /\ pre.optimizer # None
    /\ Len(pre.losses_per_epochs) > 0

\* C4: past the initialisation, a call without continue_training has reset the
\* weights once and holds an optimizer made by this call; a call with
\* continue_training has not reset the weights and holds the optimizer it
\* started with; every step of the call is taken by that optimizer.
C4_Initialisation ==
    /\ (pc \in InLoop /\ ~args.continue_training) =>
          /\ weights = pre.weights + 1
          /\ optimizer = calls
          /\ optimizer # pre.optimizer
    /\ (pc \in InLoop /\ args.continue_training) =>
          /\ weights = pre.weights
          /\ optimizer = pre.optimizer
    /\ pc \in InLoop => optimizer # None
    /\ (pc \in InLoop /\ processed > 0 /\ pc \notin {"l133", "l134", "l136"}) =>
          last_step.optimizer = optimizer
    /\ processed > 0 => pc \in InLoop

C4_Witness ==
    /\ pc = "l139"
    /\ calls = 2
    /\ args.continue_training
    /\ optimizer = 1
    /\ weights = 1

\* C5: should_stop is called only at the end of epochs whose index is a
\* multiple of the frequency, after that epoch's loss was appended, at most
\* once per epoch, and always after the first epoch; a true answer ends the
\* call at once; without a stopper all num_epochs epochs run.
C5_EarlyStopping ==
    /\ args.early_stopper = None => consulted = <<>>
    /\ \A i \in DOMAIN consulted :
          /\ 0 = consulted[i].epoch % args.early_stopper
          /\ consulted[i].losses = Len(pre.losses_per_epochs) + consulted[i].epoch + 1
          /\ consulted[i].processed =
                (consulted[i].epoch + 1) * NumBatches(num_instances, args.batch_size)
          /\ \A j \in DOMAIN consulted : j # i => consulted[j].epoch # consulted[i].epoch
          /\ consulted[i].answer =>
                /\ i = Len(consulted)
                /\ pc = "returned"
                /\ epoch = consulted[i].epoch
                /\ processed = consulted[i].processed
                /\ Len(losses_per_epochs) = consulted[i].losses
    /\ (args.early_stopper # None /\ pc \in InLoop /\ pc # "l144"
          /\ Len(losses_per_epochs) > Len(pre.losses_per_epochs)) =>
          /\ Len(consulted) >= 1
          /\ consulted[1].epoch = 0
    /\ (args.early_stopper = None /\ pc = "returned") =>
          /\ Len(losses_per_epochs) = Len(pre.losses_per_epochs) + args.num_epochs
          /\ processed = args.num_epochs * NumBatches(num_instances, args.batch_size)

C5_Witness ==
    /\ pc = "returned"
    /\ args.early_stopper = 2
    /\ Len(consulted) = 2
    /\ consulted[2].epoch = 2
    /\ consulted[2].answer
    /\ args.num_epochs = 3

\* C6: train returns a pair of the model and the losses per epoch, on both
\* return paths.
C6_ReturnsPair ==
    pc = "returned" => ret.components = <<"model", "losses_per_epochs">>

MaxHelpCalls == 2
MaxReplicate == 2

\* NO_RANDOM, lines 35-41, by class name.
NO_RANDOM == [WN18RR |-> 6000, CoDExSmall |-> 9000, CoDExMedium |-> 8500,
              CoDExLarge |-> 8500, FB15k237 |-> 5000]

\* The datasets the model is run on: one outside NO_RANDOM, two inside.
Datasets == {"Nations", "WN18RR", "FB15k237"}

\* The ratios _help_loop is given here: 0.001 and 0.6 of the grid of line 49,
\* and 0.0015, which int(ratio * 1000) cannot tell from 0.001.
RatioInputs == {10, 15, 6000}

\* time.time() - s: some positive duration.
TimeValues == {1, 2}

DigitChars == <<"0", "1", "2", "3", "4", "5", "6", "7", "8", "9">>

RECURSIVE Digits(_)
\* str(n) for n >= 0, as a sequence of characters.
Digits(n) == IF n < 10 THEN <<DigitChars[n + 1]>>
             ELSE Append(Digits(n \div 10), DigitChars[(n % 10) + 1])

RECURSIVE ZeroPad(_, _)
ZeroPad(cs, width) == IF Len(cs) >= width THEN cs ELSE ZeroPad(<<"0">> \o cs, width)

\* f'{n:03}': at least three digits, padded with zeros on the left.
Format03(n) == ZeroPad(Digits(n), 3)

\* int(ratio * 1000), line 103.
IntRatio1000(ratio) == ratio \div 10

\* Line 102.
Rct(randomize_cleanup) == IF randomize_cleanup THEN "random" ELSE "deterministic"

\* Line 103: the file name inside results_directory.
PathWithoutReplicate(ratio, randomize_cleanup, replicate) ==
    Format03(IntRatio1000(ratio)) \o <<"_">> \o <<Rct(randomize_cleanup), ".pkl">>
Path(ratio, randomize_cleanup, replicate) ==
    Format03(IntRatio1000(ratio)) \o <<"_">> \o Format03(replicate) \o <<"_">>
        \o <<Rct(randomize_cleanup), ".pkl">>

\* Line 98.
Skipped(ds, ratio, randomize_cleanup) ==
    /\ ds \in DOMAIN NO_RANDOM
    /\ randomize_cleanup
    /\ NO_RANDOM[ds] < ratio

\* pickle.dump and pickle.load (lines 107 and 117).
Pickle(obj) == <<"pickle", "HIGHEST_PROTOCOL", obj>>
Unpickle(bytes) == bytes[3]

\* deteriorate_dataset and cleanup_dataset with a RandomState seeded by the
\* replicate (lines 109-114): determined by their arguments.
DeteriorateDataset(ds, ratio, replicate) ==
    [deteriorated |-> ds, n |-> ratio, seed |-> replicate]
CleanupDataset(deteriorated, randomize_cleanup) ==
    [cleaned |-> deteriorated, randomize_cleanup |-> randomize_cleanup]

\* dataset_splits_distance, line 119.
DatasetSplitsDistance(ds, nd) == <<"distance", ds, nd>>

\* What _help_loop returns for a skipped combination (None), told apart from a row.
NoRow == <<>>

HelpArgSets == [ratio : RatioInputs, randomize_cleanup : BOOLEAN, replicate : 1..MaxReplicate]

NoFrame == [pc |-> "idle", args |-> [ratio |-> 10, randomize_cleanup |-> FALSE, replicate |-> 1],
            path |-> <<>>, deteriorated_dataset |-> None, nd |-> None,
            deteriorate_time |-> 0, cleanup_time |-> 0, row |-> NoRow]

NoHist == [existed |-> FALSE, deteriorations |-> 0, cleanups |-> 0, dumps |-> 0,
           files_before |-> <<>>, repeat |-> FALSE]

CacheInit ==
    /\ dataset \in Datasets
    /\ files = <<>>
    /\ hl = NoFrame
    /\ hl_calls = 0
    /\ hl_hist = NoHist
    /\ first_rows = [a \in HelpArgSets |-> NoRow]

\* _help_loop is called.
HelpLoopCall ==
    /\ hl.pc \in {"idle", "returned"}
    /\ hl_calls < MaxHelpCalls
    /\ \E a \in HelpArgSets :
          /\ hl' = [NoFrame EXCEPT !.pc = "l98", !.args = a]
          /\ hl_hist' = [NoHist EXCEPT !.files_before = files,
                                       !.repeat = first_rows[a] # NoRow]
    /\ hl_calls' = hl_calls + 1
    /\ UNCHANGED <<dataset, files, first_rows>>

\* Lines 98-103: a skipped combination returns None, otherwise the path is built.
SkipOrPath ==
    /\ hl.pc = "l98"
    /\ IF Skipped(dataset, hl.args.ratio, hl.args.randomize_cleanup)
       THEN hl' = [hl EXCEPT !.pc = "returned", !.row = NoRow]
       ELSE hl' = [hl EXCEPT !.pc = "l105",
                             !.path = Path(hl.args.ratio, hl.args.randomize_cleanup,
                                           hl.args.replicate)]
    /\ UNCHANGED <<dataset, files, hl_calls, hl_hist, first_rows>>

\* Line 105.
PathExists(fs, path) == path \in DOMAIN fs
PathNeverExists(fs, path) == FALSE

\* Lines 105-107: the file is there, its content is loaded.
LoadCached ==
    /\ hl.pc = "l105"
    /\ PathExists(files, hl.path)
    /\ LET loaded == Unpickle(files[hl.path])
       IN  hl' = [hl EXCEPT !.pc = "l119", !.nd = loaded[1],
                            !.deteriorate_time = loaded[2], !.cleanup_time = loaded[3]]
    /\ hl_hist' = [hl_hist EXCEPT !.existed = TRUE]
    /\ UNCHANGED <<dataset, files, hl_calls, first_rows>>

\* Lines 108-112: the file is not there, the dataset is deteriorated.
Deteriorate ==
    /\ hl.pc = "l105"
    /\ ~PathExists(files, hl.path)
    /\ \E d \in TimeValues :
          hl' = [hl EXCEPT !.pc = "l113",
                           !.deteriorated_dataset =
                               DeteriorateDataset(dataset, hl.args.ratio, hl.args.replicate),
                           !.deteriorate_time = d]
    /\ hl_hist' = [hl_hist EXCEPT !.existed = FALSE, !.deteriorations = @ + 1]
    /\ UNCHANGED <<dataset, files, hl_calls, first_rows>>

\* Lines 113-115.
Cleanup ==
    /\ hl.pc = "l113"
    /\ \E d \in TimeValues :
          hl' = [hl EXCEPT !.pc = "l116",
                           !.nd = CleanupDataset(hl.deteriorated_dataset,
                                                 hl.args.randomize_cleanup),
                           !.cleanup_time = d]
    /\ hl_hist' = [hl_hist EXCEPT !.cleanups = @ + 1]
    /\ UNCHANGED <<dataset, files, hl_calls, first_rows>>

\* open(path, 'wb') and pickle.dump: the directory afterwards.
FilesNotWritten(fs, path, content) == fs
FilesAfterDump(fs, path, content) ==
    [q \in DOMAIN fs \cup {path} |-> IF q = path THEN content ELSE fs[q]]

\* Lines 116-117.
Dump ==
    /\ hl.pc = "l116"
    /\ files' = FilesAfterDump(files, hl.path,
                               Pickle(<<hl.nd, hl.deteriorate_time, hl.cleanup_time>>))
    /\ hl' = [hl EXCEPT !.pc = "l119"]
    /\ hl_hist' = [hl_hist EXCEPT !.dumps = @ + 1]
    /\ UNCHANGED <<dataset, hl_calls, first_rows>>

\* get_normalized_name(), line 121.
NormalizedName(ds) == <<"normalized", ds>>

\* Lines 119-128: the row.
Row(ds, a, nd, deteriorate_time, cleanup_time) ==
    <<NormalizedName(ds), Rct(a.randomize_cleanup), a.ratio, a.replicate,
      DatasetSplitsDistance(ds, nd), deteriorate_time, cleanup_time>>

ReturnRow ==
    /\ hl.pc = "l119"
    /\ LET row == Row(dataset, hl.args, hl.nd, hl.deteriorate_time, hl.cleanup_time)
       IN  /\ hl' = [hl EXCEPT !.pc = "returned", !.row = row]
           /\ first_rows' = IF first_rows[hl.args] = NoRow
                            THEN [first_rows EXCEPT ![hl.args] = row]
                            ELSE first_rows
    /\ UNCHANGED <<dataset, files, hl_calls, hl_hist>>

CacheNext ==
    \/ HelpLoopCall
    \/ SkipOrPath
    \/ LoadCached
    \/ Deteriorate
    \/ Cleanup
    \/ Dump
    \/ ReturnRow

(***************************************************************************)
(* Claims about _help_loop                                                 *)
(***************************************************************************)
HelpLoopPastCache == hl.pc \in {"l119", "returned"} /\ hl.path # <<>>

\* C8: a call that is not skipped and finds its result file neither
\* deteriorates nor cleans up nor rewrites the file; one that does not find it
\* does each exactly once and writes the result to the file; a later call with
\* the same arguments computes nothing and returns the same row as the first.
C8_FileCacheMemoizes ==
    /\ (HelpLoopPastCache /\ hl_hist.existed) =>
          /\ hl_hist.deteriorations = 0
          /\ hl_hist.cleanups = 0
          /\ hl_hist.dumps = 0
          /\ files = hl_hist.files_before
    /\ (HelpLoopPastCache /\ ~hl_hist.existed) =>
          /\ hl_hist.deteriorations = 1
          /\ hl_hist.cleanups = 1
          /\ hl_hist.dumps = 1
          /\ hl.path \notin DOMAIN hl_hist.files_before
          /\ hl.path \in DOMAIN files
          /\ Unpickle(files[hl.path]) = <<hl.nd, hl.deteriorate_time, hl.cleanup_time>>
          /\ \A q \in DOMAIN hl_hist.files_before : files[q] = hl_hist.files_before[q]
    /\ (hl_hist.repeat /\ hl.pc \notin {"idle", "l98"}) =>
          /\ hl_hist.deteriorations = 0
          /\ hl_hist.cleanups = 0
          /\ hl.pc = "returned" => hl.row = first_rows[hl.args]

C8_Witness ==
    /\ hl.pc = "returned"
    /\ hl_hist.repeat
    /\ hl_hist.existed
    /\ hl.row = first_rows[hl.args]
    /\ hl.row[6] = 2

(***************************************************************************)
(* helper: the grid of one run and the starmap over it                     *)
(***************************************************************************)
\* Line 48.
replicates == 4

\* Line 49, in units of 1/10000 like every ratio here.
Percentages ==
    <<10, 20, 50, 100, 200, 500>>
        \o [i \in 1..9 |-> i * 1000]
        \o <<9500, 9900, 9990>>

\* Line 50.
randomize_cleanup_options == <<TRUE, FALSE>>

\* itt.product (lines 57-61): every combination once, the last factor running
\* fastest.
Product(ps, opts, n) ==
    [k \in 1..(Len(ps) * Len(opts) * n) |->
        [ratio |-> ps[((k - 1) \div (Len(opts) * n)) + 1],
         randomize_cleanup |-> opts[(((k - 1) \div n) % Len(opts)) + 1],
         replicate |-> ((k - 1) % n) + 1]]

\* The grid of a run of helper.
Grid == Product(Percentages, randomize_cleanup_options, replicates)

\* Line 62.
Total == Len(Percentages) * replicates * Len(randomize_cleanup_options)

Range(seq) == {seq[k] : k \in DOMAIN seq}

PathOf(a) == Path(a.ratio, a.randomize_cleanup, a.replicate)

\* The processes of the pool of starmap_ctx.
Workers == {"w1", "w2"}

\* The runs followed step by step take one percentage of the grid, one that
\* NO_RANDOM never skips or one that it does, and MaxReplicate replicates.
RunPercentages == {<<Percentages[1]>>, <<Percentages[12]>>}

\* What an interrupted earlier run may have left in the results directory:
\* the files of some combinations.
EarlierResults(ds, done) ==
    [q \in {PathOf(a) : a \in done} |->
        LET a == CHOOSE b \in done : PathOf(b) = q
        IN  Pickle(<<CleanupDataset(DeteriorateDataset(ds, a.ratio, a.replicate),
                                    a.randomize_cleanup), 1, 1>>)]

NoTaskHist == [calls |-> 0, existed |-> FALSE, deteriorations |-> 0, dumps |-> 0,
               returned |-> FALSE, row |-> NoRow]

\* helper up to line 66: the grid, and the results directory as it is found.
HelperInit ==
    /\ dataset \in Datasets
    /\ percentages \in RunPercentages
    /\ it = Product(percentages, randomize_cleanup_options, MaxReplicate)
    /\ \E done \in {{}, {[ratio |-> percentages[1], randomize_cleanup |-> FALSE,
                          replicate |-> 1]}} :
          /\ files = EarlierResults(dataset, done)
          /\ task_hist = [a \in Range(it) |-> [NoTaskHist EXCEPT !.existed = a \in done]]
    /\ pool = [w \in Workers |-> NoFrame]
    /\ helper_pc = "starmap"
    /\ rows = <<>>
    /\ hl = NoFrame
    /\ hl_calls = 0
    /\ hl_hist = NoHist
    /\ first_rows = [a \in HelpArgSets |-> NoRow]

\* starmap: a free worker is handed the next combination and calls _help_loop.
PoolCall(w) ==
    /\ helper_pc = "starmap"
    /\ pool[w].pc \in {"idle", "returned"}
    /\ it # <<>>
    /\ pool' = [pool EXCEPT ![w] = [NoFrame EXCEPT !.pc = "l98", !.args = Head(it)]]
    /\ it' = Tail(it)
    /\ task_hist' = [task_hist EXCEPT ![Head(it)].calls = @ + 1]
    /\ UNCHANGED <<dataset, files, helper_pc, percentages, rows>>

\* Lines 98-103 in worker w.
PoolSkipOrPath(w) ==
    /\ pool[w].pc = "l98"
    /\ LET f == pool[w]
       IN  IF Skipped(dataset, f.args.ratio, f.args.randomize_cleanup)
           THEN /\ pool' = [pool EXCEPT ![w] = [f EXCEPT !.pc = "returned", !.row = NoRow]]
                /\ task_hist' = [task_hist EXCEPT ![f.args].returned = TRUE]
           ELSE /\ pool' = [pool EXCEPT ![w] = [f EXCEPT !.pc = "l105", !.path = PathOf(f.args)]]
                /\ UNCHANGED task_hist
    /\ UNCHANGED <<dataset, files, helper_pc, percentages, it, rows>>

\* Lines 105-107 in worker w.
PoolLoadCached(w) ==
    /\ pool[w].pc = "l105"
    /\ PathExists(files, pool[w].path)
    /\ LET loaded == Unpickle(files[pool[w].path])
       IN  pool' = [pool EXCEPT ![w] = [@ EXCEPT !.pc = "l119", !.nd = loaded[1],
                                                 !.deteriorate_time = loaded[2],
                                                 !.cleanup_time = loaded[3]]]
    /\ UNCHANGED <<dataset, files, helper_pc, percentages, it, task_hist, rows>>

\* Lines 108-115 in worker w: the file is not there, the dataset is
\* deteriorated and cleaned up; the two durations are drawn together.
PoolDeteriorate(w) ==
    /\ pool[w].pc = "l105"
    /\ ~PathExists(files, pool[w].path)
    /\ LET f == pool[w]
       IN  \E d \in TimeValues :
              pool' = [pool EXCEPT ![w] =
                         [f EXCEPT !.pc = "l116",
                                   !.deteriorated_dataset =
                                       DeteriorateDataset(dataset, f.args.ratio, f.args.replicate),
                                   !.nd = CleanupDataset(
                                              DeteriorateDataset(dataset, f.args.ratio,
                                                                 f.args.replicate),
                                              f.args.randomize_cleanup),
                                   !.deteriorate_time = d,
                                   !.cleanup_time = d]]
    /\ task_hist' = [task_hist EXCEPT ![pool[w].args].deteriorations = @ + 1]
    /\ UNCHANGED <<dataset, files, helper_pc, percentages, it, rows>>

\* Lines 116-117 in worker w.
PoolDump(w) ==
    /\ pool[w].pc = "l116"
    /\ LET f == pool[w]
       IN  files' = FilesAfterDump(files, f.path,
                                   Pickle(<<f.nd, f.deteriorate_time, f.cleanup_time>>))
    /\ pool' = [pool EXCEPT ![w].pc = "l119"]
    /\ task_hist' = [task_hist EXCEPT ![pool[w].args].dumps = @ + 1]
    /\ UNCHANGED <<dataset, helper_pc, percentages, it, rows>>

\* Lines 119-128 in worker w: the row goes back to starmap.
PoolReturnRow(w) ==
    /\ pool[w].pc = "l119"
    /\ LET f == pool[w]
           row == Row(dataset, f.args, f.nd, f.deteriorate_time, f.cleanup_time)
       IN  /\ pool' = [pool EXCEPT ![w] = [f EXCEPT !.pc = "returned", !.row = row]]
           /\ task_hist' = [task_hist EXCEPT ![f.args].returned = TRUE, ![f.args].row = row]
    /\ UNCHANGED <<dataset, files, helper_pc, percentages, it, rows>>

\* The combinations of the run, in the order of the grid.
Tasks == Product(percentages, randomize_cleanup_options, MaxReplicate)

RECURSIVE NotNone(_)
NotNone(rs) ==
    IF rs = <<>> THEN <<>>
    ELSE IF Head(rs) = NoRow THEN NotNone(Tail(rs))
    ELSE <<Head(rs)>> \o NotNone(Tail(rs))

\* Lines 71-73: starmap returns when every call has, with the results in the
\* order of the grid; the rows are those that are not None.
Collect ==
    /\ helper_pc = "starmap"
    /\ it = <<>>
    /\ \A a \in Range(Tasks) : task_hist[a].returned
    /\ rows' = NotNone([k \in DOMAIN Tasks |-> task_hist[Tasks[k]].row])
    /\ helper_pc' = "l74"
    /\ UNCHANGED <<dataset, files, percentages, it, pool, task_hist>>

HelperNext ==
    \/ \E w \in Workers : PoolCall(w)
    \/ \E w \in Workers : PoolSkipOrPath(w)
    \/ \E w \in Workers : PoolLoadCached(w)
    \/ \E w \in Workers : PoolDeteriorate(w)
    \/ \E w \in Workers : PoolDump(w)
    \/ \E w \in Workers : PoolReturnRow(w)
    \/ Collect

(***************************************************************************)
(* Claims about the run of helper                                          *)
(***************************************************************************)
InFlight(w) == pool[w].pc \in {"l105", "l116", "l119"}

\* C12: the grid of helper has 18 x 2 x 4 combinations, each once, and Path
\* gives every one of them a file name of its own.  During the starmap no two
\* workers are ever at the same file, no combination is handed out, computed
\* or written twice, and when starmap has returned every combination was
\* handed to _help_loop exactly once: a skipped one gave None, one whose file
\* an earlier run left was loaded, and every other one was deteriorated,
\* cleaned up and written exactly once, to the file that holds its own row.
C12_DistinctPaths ==
    /\ (helper_pc = "starmap" /\ it = Tasks) =>
          /\ Len(Percentages) = 18
          /\ Len(Grid) = Total
          /\ Total = 18 * 2 * 4
          /\ Cardinality(Range(Grid)) = Total
          /\ Cardinality({PathOf(a) : a \in Range(Grid)}) = Total
    /\ helper_pc # "idle" =>
          /\ Cardinality({PathOf(a) : a \in Range(Tasks)}) = Len(Tasks)
          /\ \A v, w \in Workers :
                (v # w /\ InFlight(v) /\ InFlight(w)) => pool[v].path # pool[w].path
          /\ \A a \in Range(Tasks) :
                /\ task_hist[a].calls <= 1
                /\ task_hist[a].deteriorations <= 1
                /\ task_hist[a].dumps <= 1
                /\ task_hist[a].existed => task_hist[a].deteriorations = 0
    /\ helper_pc = "l74" =>
          /\ \A a \in Range(Tasks) :
                /\ task_hist[a].calls = 1
                /\ IF Skipped(dataset, a.ratio, a.randomize_cleanup)
                   THEN /\ task_hist[a].row = NoRow
                        /\ task_hist[a].deteriorations = 0
                        /\ task_hist[a].dumps = 0
                   ELSE /\ task_hist[a].deteriorations = IF task_hist[a].existed THEN 0 ELSE 1
                        /\ task_hist[a].dumps = task_hist[a].deteriorations
                        /\ PathOf(a) \in DOMAIN files
                        /\ LET loaded == Unpickle(files[PathOf(a)])
                           IN  task_hist[a].row =
                                   Row(dataset, a, loaded[1], loaded[2], loaded[3])
                        /\ Unpickle(files[PathOf(a)])[1] =
                              CleanupDataset(DeteriorateDataset(dataset, a.ratio, a.replicate),
                                             a.randomize_cleanup)
          /\ Len(rows) =
                Cardinality({a \in Range(Tasks) :
                                ~Skipped(dataset, a.ratio, a.randomize_cleanup)})
          /\ DOMAIN files =
                {PathOf(a) : a \in {b \in Range(Tasks) :
                                       ~Skipped(dataset, b.ratio, b.randomize_cleanup)}}

\* Two workers are about to write the results of two replicates of the same
\* percentage and cleanup, each to its own file.
C12_Witness ==
    /\ helper_pc = "starmap"
    /\ pool["w1"].pc = "l116"
    /\ pool["w2"].pc = "l116"
    /\ pool["w1"].args.ratio = pool["w2"].args.ratio
    /\ pool["w1"].args.randomize_cleanup = pool["w2"].args.randomize_cleanup
    /\ pool["w1"].args.replicate # pool["w2"].args.replicate
    /\ pool["w1"].path # pool["w2"].path
    /\ \E a \in Range(Tasks) : task_hist[a].returned /\ task_hist[a].dumps = 1

(***************************************************************************)
(* The scoring interface of pykeen.nn.modules.Interaction, as the generic  *)
(* tests of test_interactions.py drive it.  A tensor is a shape and a      *)
(* value for every index of that shape; an embedding vector is one value.  *)
(***************************************************************************)
MaxBatch == 2
MaxEntities == 3
MaxRelations == 3

\* What torch.rand may put into an embedding.
EmbeddingValues == {0, 1}

\* The interactions of the model: two with a relation representation, one
\* (the unstructured model) whose relation_shape is empty.
Interactions == {"TransE", "DistMult", "UM"}

RelationShape(c) == IF c = "UM" THEN <<>> ELSE <<"d">>

Abs(x) == IF x < 0 THEN -x ELSE x

\* The score of one triple (lines 266-267 and 397-398 for DistMult and TransE).
Interaction(c, h, r, t) ==
    CASE c = "TransE"   -> -Abs(h + r - t)
      [] c = "DistMult" -> h * r * t
      [] OTHER          -> -((h - t) * (h - t))

RECURSIVE Indices(_)
\* Every index of a tensor of this shape.
Indices(shape) ==
    IF shape = <<>> THEN {<<>>}
    ELSE {<<i>> \o rest : i \in 1..Head(shape), rest \in Indices(Tail(shape))}

InsertAt(seq, k, v) == SubSeq(seq, 1, k - 1) \o <<v>> \o SubSeq(seq, k, Len(seq))
RemoveAt(seq, k) == SubSeq(seq, 1, k - 1) \o SubSeq(seq, k + 1, Len(seq))

\* torch.rand(n): a tensor of shape (n,) holding the given values.
Vector(values) ==
    [shape |-> <<Len(values)>>, data |-> [ix \in Indices(<<Len(values)>>) |-> values[ix[1]]]]

\* x.unsqueeze(dim), dimensions counted from 1.
Unsqueeze(x, dim) ==
    LET shape == InsertAt(x.shape, dim, 1)
    IN  [shape |-> shape, data |-> [ix \in Indices(shape) |-> x.data[RemoveAt(ix, dim)]]]

\* x.select(dim, index): the dimension disappears.
Select(x, dim, index) ==
    LET shape == RemoveAt(x.shape, dim)
    IN  [shape |-> shape, data |-> [ix \in Indices(shape) |-> x.data[InsertAt(ix, dim, index)]]]

\* x.narrow(dim, start, length).
Narrow(x, dim, start, length) ==
    LET shape == [x.shape EXCEPT ![dim] = length]
    IN  [shape |-> shape,
         data |-> [ix \in Indices(shape) |-> x.data[[ix EXCEPT ![dim] = @ + start - 1]]]]

\* torch.cat([a, b], dim).
Cat2(a, b, dim) ==
    LET shape == [a.shape EXCEPT ![dim] = @ + b.shape[dim]]
    IN  [shape |-> shape,
         data |-> [ix \in Indices(shape) |->
                      IF ix[dim] <= a.shape[dim] THEN a.data[ix]
                      ELSE b.data[[ix EXCEPT ![dim] = @ - a.shape[dim]]]]]

RECURSIVE Cat(_, _)
\* torch.cat(xs, dim) of a non-empty list.
Cat(xs, dim) == IF Len(xs) = 1 THEN xs[1]
                ELSE Cat2(Cat(SubSeq(xs, 1, Len(xs) - 1), dim), xs[Len(xs)], dim)

Max(a, b) == IF a >= b THEN a ELSE b
Min(a, b) == IF a <= b THEN a ELSE b

\* The position read from a dimension of size 1 or of full size (broadcasting).
Broadcast(i, size) == IF size = 1 THEN 1 ELSE i

\* The relation representation of a class without one: the empty tuple.
NoRepresentation == [shape |-> <<1, 1>>, data |-> [ix \in Indices(<<1, 1>>) |-> 0]]

\* Interaction.forward: h of shape (bh, nh), r of shape (br, nr), t of shape
\* (bt, nt) give scores of shape (max(bh, br, bt), nh, nr, nt).
Forward(c, h, r, t) ==
    LET shape == <<Max(h.shape[1], Max(r.shape[1], t.shape[1])),
                   h.shape[2], r.shape[2], t.shape[2]>>
    IN  [shape |-> shape,
         data |-> [ix \in Indices(shape) |->
                      Interaction(c, h.data[<<Broadcast(ix[1], h.shape[1]), ix[2]>>],
                                     r.data[<<Broadcast(ix[1], r.shape[1]), ix[3]>>],
                                     t.data[<<Broadcast(ix[1], t.shape[1]), ix[4]>>])]]

\* The dimension of the scores that belongs to each of h, r, t.
CanonicalDimension(slice_dim) ==
    CASE slice_dim = "h" -> 2
      [] slice_dim = "r" -> 3
      [] OTHER           -> 4

RECURSIVE SlicesFrom(_, _, _)
SlicesFrom(start, num, slice_size) ==
    IF start > num THEN <<>>
    ELSE <<<<start, Min(slice_size, num - start + 1)>>>>
             \o SlicesFrom(start + slice_size, num, slice_size)

RECURSIVE FullSlicesFrom(_, _, _)
FullSlicesFrom(start, num, slice_size) ==
    IF start + slice_size - 1 > num
    THEN IF start = 1 THEN <<<<1, num>>>> ELSE <<>>
    ELSE <<<<start, slice_size>>>> \o FullSlicesFrom(start + slice_size, num, slice_size)

\* All of the candidates only in slices that are complete.
FullSlices(num, slice_size) == FullSlicesFrom(1, num, slice_size)

\* The candidates 1..num in slices of slice_size, the last one possibly
\* shorter: <<start, length>> of each.
Slices(num, slice_size) == SlicesFrom(1, num, slice_size)

\* The forward pass, over slices of the candidates when a slice_size is given.
ForwardSliced(c, h, r, t, slice_size, slice_dim) ==
    IF slice_size = None THEN Forward(c, h, r, t)
    ELSE LET whole == CASE slice_dim = "h" -> h [] slice_dim = "r" -> r [] OTHER -> t
             parts == Slices(whole.shape[2], slice_size)
             part(k) == Narrow(whole, 2, parts[k][1], parts[k][2])
         IN  Cat([k \in 1..Len(parts) |->
                     Forward(c, IF slice_dim = "h" THEN part(k) ELSE h,
                                IF slice_dim = "r" THEN part(k) ELSE r,
                                IF slice_dim = "t" THEN part(k) ELSE t)],
                 CanonicalDimension(slice_dim))

\* The relation as the forward pass takes it.
Relation(c, r, dim) == IF RelationShape(c) = <<>> THEN NoRepresentation ELSE Unsqueeze(r, dim)

\* score_hrt: (batch_size, 1).
ScoreHRT(c, h, r, t) ==
    Select(Select(Forward(c, Unsqueeze(h, 2), Relation(c, r, 2), Unsqueeze(t, 2)), 4, 1), 3, 1)

\* score_h: (batch_size, num_entities).
ScoreH(c, all_entities, r, t, slice_size) ==
    Select(Select(ForwardSliced(c, Unsqueeze(all_entities, 1), Relation(c, r, 2),
                                Unsqueeze(t, 2), slice_size, "h"), 4, 1), 3, 1)

\* score_r: (batch_size, num_relations).
ScoreR(c, h, all_relations, t, slice_size) ==
    Select(Select(ForwardSliced(c, Unsqueeze(h, 2), Relation(c, all_relations, 1),
                                Unsqueeze(t, 2), slice_size, "r"), 4, 1), 2, 1)

\* score_t: (batch_size, num_entities).
ScoreT(c, h, r, all_entities, slice_size) ==
    Select(Select(ForwardSliced(c, Unsqueeze(h, 2), Relation(c, r, 2),
                                Unsqueeze(all_entities, 1), slice_size, "t"), 3, 1), 2, 1)

\* Lines 59-62: the sizes of the test case.
DimSets == [batch_size : 1..MaxBatch, num_entities : 1..MaxEntities,
            num_relations : 1..MaxRelations]

Methods == {"score_hrt", "score_h", "score_r", "score_t"}

\* The prefix shapes each test asks _get_hrt for (lines 97-101, 107-111,
\* 130-134, 159-163), as the lengths of h, r and t.
PrefixAllBatch(method, d) == <<d.batch_size, d.batch_size, d.batch_size>>
PrefixShapes(method, d) ==
    CASE method = "score_hrt" -> <<d.batch_size, d.batch_size, d.batch_size>>
      [] method = "score_h"   -> <<d.num_entities, d.batch_size, d.batch_size>>
      [] method = "score_r"   -> <<d.batch_size, d.num_relations, d.batch_size>>
      [] OTHER                -> <<d.batch_size, d.batch_size, d.num_entities>>

\* The candidates a method scores against.
NumCandidates(method, d) ==
    CASE method = "score_h" -> d.num_entities
      [] method = "score_r" -> d.num_relations
      [] method = "score_t" -> d.num_entities
      [] OTHER              -> 1

\* The slice sizes a test may pass: none for score_hrt, and none for score_r of
\* a class without relation representation (line 144-145).
SliceSizes(c, method, d) ==
    IF method = "score_hrt" \/ (method = "score_r" /\ RelationShape(c) = <<>>)
    THEN {None}
    ELSE {None} \cup 1..NumCandidates(method, d)

Vectors(n) == {Vector(v) : v \in [1..n -> EmbeddingValues]}

NoTest == [pc |-> "setUp", method |-> "score_hrt", h |-> Vector(<<0>>), r |-> Vector(<<0>>),
           t |-> Vector(<<0>>), slice_size |-> None]

NoScores == [shape |-> <<>>, data |-> [ix \in Indices(<<>>) |-> 0]]

ScoreInit ==
    /\ cls \in Interactions
    /\ dims \in DimSets
    /\ training = TRUE
    /\ test = NoTest
    /\ scores = NoScores

\* _get_hrt (lines 66-81): random representations with the prefix shapes of
\* the test; a slicing test first puts the instance in evaluation mode.
GetHRT ==
    /\ test.pc = "setUp"
    /\ \E method \in Methods :
          LET prefix == PrefixShapes(method, dims)
          IN  \E h \in Vectors(prefix[1]), r \in Vectors(prefix[2]), t \in Vectors(prefix[3]),
                 slice_size \in SliceSizes(cls, method, dims) :
                    /\ test' = [pc |-> "call", method |-> method, h |-> h, r |-> r, t |-> t,
                                slice_size |-> slice_size]
                    /\ training' = (slice_size = None)
    /\ scores' = NoScores
    /\ UNCHANGED <<cls, dims>>

\* The prefix shapes of test_forward (lines 182-198): head, relation and tail
\* representations of shape (batch, num), with batch dimensions that broadcast.
ForwardShapes(d) ==
    { <<<<d.batch_size, 1>>, <<1, d.num_relations>>, <<d.batch_size, d.num_entities>>>>,
      <<<<1, 1>>, <<1, d.num_relations>>, <<d.batch_size, d.num_entities>>>>,
      <<<<1, d.num_entities>>, <<1, d.num_relations>>, <<1, d.num_entities>>>> }

\* Every combination forward accepts: each batch dimension is 1 or the batch
\* size, each number of heads, relations and tails is 1 or all of them.
BroadcastableShapes(d) ==
    { <<<<bh, nh>>, <<br, nr>>, <<bt, nt>>>> :
         bh \in {1, d.batch_size}, nh \in {1, d.num_entities},
         br \in {1, d.batch_size}, nr \in {1, d.num_relations},
         bt \in {1, d.batch_size}, nt \in {1, d.num_entities} }

\* torch.rand (line 73) for a prefix shape: one of two draws, told apart by
\* their seed.
Rand(shape, seed) ==
    [shape |-> shape, data |-> [ix \in Indices(shape) |-> (ix[1] + ix[2] + seed) % 2]]

\* _get_hrt (lines 71-81) makes one tensor per weight shape of the class: a
\* class with an empty relation_shape gets no relation tensor at all, whatever
\* the relation prefix shape of the test.
ForwardRelationAlways(c, r) == r
ForwardRelation(c, r) == IF RelationShape(c) = <<>> THEN NoRepresentation ELSE r

\* test_forward (lines 180-208): h, r and t with the prefix shapes hs, rs, ts.
\* None of the interactions here has a batch-norm layer, so none is skipped
\* (lines 199-200).  test.r keeps the relation prefix shape of the test.
GetForwardHRT ==
    /\ test.pc = "setUp"
    /\ \E prefix \in ForwardShapes(dims) \cup BroadcastableShapes(dims) :
          \E seed \in EmbeddingValues :
             test' = [pc |-> "call", method |-> "forward", h |-> Rand(prefix[1], seed),
                      r |-> Rand(prefix[2], 1 - seed), t |-> Rand(prefix[3], seed),
                      slice_size |-> None]
    /\ training' = TRUE
    /\ scores' = NoScores
    /\ UNCHANGED <<cls, dims>>

\* The call of the method under test.
CallScore ==
    /\ test.pc = "call"
    /\ scores' = CASE test.method = "score_hrt" -> ScoreHRT(cls, test.h, test.r, test.t)
                   [] test.method = "score_h" ->
                         ScoreH(cls, test.h, test.r, test.t, test.slice_size)
                   [] test.method = "score_r" ->
                         ScoreR(cls, test.h, test.r, test.t, test.slice_size)
                   [] test.method = "forward" ->
                         Forward(cls, test.h, ForwardRelation(cls, test.r), test.t)
                   [] OTHER ->
                         ScoreT(cls, test.h, test.r, test.t, test.slice_size)
    /\ test' = [test EXCEPT !.pc = "scored"]
    /\ UNCHANGED <<cls, dims, training>>

\* The next test starts from a fresh instance (GenericTests.setUp, lines 26-31).
SetUp ==
    /\ test.pc = "scored"
    /\ test' = NoTest
    /\ scores' = NoScores
    /\ training' = TRUE
    /\ UNCHANGED <<cls, dims>>

ScoreNext ==
    \/ GetHRT
    \/ GetForwardHRT
    \/ CallScore
    \/ SetUp

(***************************************************************************)
(* Claims about the scoring interface                                      *)
(***************************************************************************)
\* C9: score_hrt returns scores of shape (b, 1), score_h and score_t of shape
\* (b, e), score_r of shape (b, n), or (b, 1) for a class whose relation_shape
\* is empty; the scores have exactly two dimensions and one value per index.
C9_ScoreShapes ==
    (test.pc = "scored" /\ test.method \in Methods) =>
        /\ Len(scores.shape) = 2
        /\ DOMAIN scores.data = Indices(scores.shape)
        /\ test.method = "score_hrt" => scores.shape = <<dims.batch_size, 1>>
        /\ test.method = "score_h" => scores.shape = <<dims.batch_size, dims.num_entities>>
        /\ test.method = "score_t" => scores.shape = <<dims.batch_size, dims.num_entities>>
        /\ test.method = "score_r" =>
              scores.shape = IF RelationShape(cls) = <<>>
                             THEN <<dims.batch_size, 1>>
                             ELSE <<dims.batch_size, dims.num_relations>>

C9_Witness ==
    /\ test.pc = "scored"
    /\ test.method = "score_r"
    /\ cls = "UM"
    /\ dims.num_relations = 3
    /\ dims.batch_size = 2
    /\ scores.shape = <<2, 1>>

\* C10: in evaluation mode score_h, score_r and score_t called with a
\* slice_size return the scores of the same call without slice_size, each in
\* the same position.
C10_SlicingEquivalence ==
    (test.pc = "scored" /\ test.slice_size # None /\ ~training) =>
        scores = CASE test.method = "score_h" -> ScoreH(cls, test.h, test.r, test.t, None)
                   [] test.method = "score_r" -> ScoreR(cls, test.h, test.r, test.t, None)
                   [] OTHER                   -> ScoreT(cls, test.h, test.r, test.t, None)

\* The slice size of the tests, num // 2 + 1, where it does not divide num.
C10_Witness ==
    /\ test.pc = "scored"
    /\ test.method = "score_t"
    /\ ~training
    /\ dims.num_entities = 3
    /\ test.slice_size = (dims.num_entities \div 2) + 1
    /\ \E i, j \in 1..3 : scores.data[<<1, i>>] # scores.data[<<1, j>>]

\* The shape test_forward expects (lines 202-205).
ExpectedShape(c, hs, rs, ts) ==
    <<Max(hs[1], Max(rs[1], ts[1])), hs[2], IF RelationShape(c) = <<>> THEN 1 ELSE rs[2], ts[2]>>

\* C11, as stated: forward(h, r, t) with prefix shapes hs = (bh, nh),
\* rs = (br, nr) and ts = (bt, nt), each batch dimension 1 or the batch size,
\* returns scores of shape (max(bh, br, bt), nh, nr, nt), where the relation
\* dimension is 1 for a class whose relation_shape is empty.
C11_ForwardShapeAsStated ==
    (test.pc = "scored" /\ test.method = "forward") =>
        scores.shape = ExpectedShape(cls, test.h.shape, test.r.shape, test.t.shape)

\* C11: forward(h, r, t) returns scores of shape (b, nh, nr, nt), one score per
\* index, where b is the largest batch dimension of the representations it is
\* given.  A class whose relation_shape is empty is given no relation
\* representation: its relation dimension is 1 and the relation prefix shape
\* does not count for b.  For the three configurations of test_forward, whose
\* relation batch dimension is 1, this is the shape as stated.
C11_ForwardShape ==
    (test.pc = "scored" /\ test.method = "forward") =>
        LET hs == test.h.shape
            rs == IF RelationShape(cls) = <<>> THEN <<1, 1>> ELSE test.r.shape
            ts == test.t.shape
        IN  /\ {hs[1], rs[1], ts[1]} \subseteq {1, dims.batch_size}
            /\ scores.shape = <<Max(hs[1], Max(rs[1], ts[1])), hs[2], rs[2], ts[2]>>
            /\ DOMAIN scores.data = Indices(scores.shape)
            /\ <<hs, test.r.shape, ts>> \in ForwardShapes(dims) =>
                  scores.shape = ExpectedShape(cls, hs, test.r.shape, ts)

\* Only the relation prefix shape has the batch size, for a class that has no
\* relation representation: the scores have batch dimension 1.
C11_Witness ==
    /\ test.pc = "scored"
    /\ test.method = "forward"
    /\ cls = "UM"
    /\ test.h.shape = <<1, 1>>
    /\ test.r.shape = <<2, 3>>
    /\ test.t.shape = <<1, 3>>
    /\ scores.shape = <<1, 1, 1, 3>>
    /\ \E i, j \in 1..3 : scores.data[<<1, 1, 1, i>>] # scores.data[<<1, 1, 1, j>>]

(***************************************************************************)
(* The specifications                                                      *)
(***************************************************************************)
\* The training loop, with the experiment driver at rest.
RestingCache == CacheInit /\ dataset = "Nations"

RestingHelper ==
    /\ helper_pc = "idle"
    /\ percentages = <<>>
    /\ it = <<>>
    /\ pool = [w \in Workers |-> NoFrame]
    /\ task_hist = <<>>
    /\ rows = <<>>

RestingTrain == TrainInit /\ ~compute_mr_loss /\ optimizer_class = None /\ num_instances = 1

RestingScore == ScoreInit /\ cls = "TransE" /\ dims = [batch_size |-> 1, num_entities |-> 1,
                                                       num_relations |-> 1]

Init == TrainInit /\ RestingCache /\ RestingHelper /\ RestingScore

Next == TrainNext /\ UNCHANGED <<cache_vars, helper_vars, score_vars>>

Spec == Init /\ [][Next]_vars

\* _help_loop and its file cache, one call at a time.
CacheSpecInit == CacheInit /\ RestingHelper /\ RestingTrain /\ RestingScore

CacheSpecNext == CacheNext /\ UNCHANGED <<train_vars, helper_vars, score_vars>>

CacheSpec == CacheSpecInit /\ [][CacheSpecNext]_vars

\* One run of helper: the calls of _help_loop that starmap runs in parallel.
HelperSpecInit == HelperInit /\ RestingTrain /\ RestingScore

HelperSpecNext ==
    HelperNext /\ UNCHANGED <<train_vars, score_vars, hl, hl_calls, hl_hist, first_rows>>

HelperSpec == HelperSpecInit /\ [][HelperSpecNext]_vars

\* The interaction tests, with the rest at rest.
ScoreSpecInit == ScoreInit /\ RestingTrain /\ RestingCache /\ RestingHelper

ScoreSpecNext == ScoreNext /\ UNCHANGED <<train_vars, cache_vars, helper_vars>>

ScoreSpec == ScoreSpecInit /\ [][ScoreSpecNext]_vars
=============================================================================
